---- MODULE Spec2Model ----
(***************************************************************************)
(* bashme.ai: the tool server (server.py: ls, man, history, env behind two  *)
(* cachetools caches and the log_io decorator), the orchestration graph     *)
(* (client.py: create_graph) and the daemon (agent_daemon.py: lifespan,     *)
(* generate_command).                                                       *)
(***************************************************************************)
EXTENDS Integers, Sequences, FiniteSets, TLC

(***************************************************************************)
(* Bounds of the model.                                                     *)
(***************************************************************************)
\* ttl_cache = TTLCache(maxsize=1024, ttl=5): the capacity and the time to
\* live, both scaled down (the operations below read them only through these
\* two names).
TtlMaxsize == 2
ttl == 2
\* lru_cache = LRUCache(maxsize=1024): the capacity, scaled down.
LruMaxsize == 2
\* The clock (time.monotonic, in seconds) runs from 0 to MaxTime.
MaxTime == 3
\* agent_executor.ainvoke(...) is given no config, so the graph runs under
\* langgraph's default recursion_limit (25 steps), scaled down.
RecursionLimit == 4

(***************************************************************************)
(* Python values: tool arguments, cache keys, tool results.                 *)
(***************************************************************************)
PyStr(x) == [t |-> "str", s |-> x, n |-> 0]
PyInt(x) == [t |-> "int", s |-> "", n |-> x]
\* cachetools.keys._kwmark, the marker between positional and keyword parts
kwmark == [t |-> "kwmark", s |-> "", n |-> 0]

RList(x) == [t |-> "list", s |-> "", l |-> x, d |-> <<>>]
RStr(x) == [t |-> "str", s |-> x, l |-> <<>>, d |-> <<>>]
RDict(x) == [t |-> "dict", s |-> "", l |-> <<>>, d |-> x]
\* what a call that raised hands back (nothing is returned)
Raised == [t |-> "raise", s |-> "", l |-> <<>>, d |-> <<>>]
NoValue == [t |-> "none", s |-> "", l |-> <<>>, d |-> <<>>]

RECURSIVE SeqToSet(_)
SeqToSet(q) == IF q = <<>> THEN {} ELSE {Head(q)} \cup SeqToSet(Tail(q))

RECURSIVE Remove(_, _)
\* q without the elements equal to x
Remove(q, x) ==
    IF q = <<>> THEN <<>>
    ELSE IF Head(q) = x THEN Remove(Tail(q), x)
    ELSE <<Head(q)>> \o Remove(Tail(q), x)

\* OrderedDict.move_to_end(key) / insertion of a new key at the end
MoveToEnd(q, x) == Append(Remove(q, x), x)

\* the function f without key k
Drop(f, k) == [x \in (DOMAIN f) \ {k} |-> f[x]]
\* the function f with f[k] = v
Put(f, k, v) == [x \in (DOMAIN f) \cup {k} |-> IF x = k THEN v ELSE f[x]]

(***************************************************************************)
(* The tools of server.py and their parameters.                             *)
(***************************************************************************)
TtlTools == {"ls", "history", "env"}
LruTools == {"man"}
Tools == TtlTools \cup LruTools

\* the signature of each tool function
Params(tool) ==
    CASE tool = "ls" -> <<"path">>
      [] tool = "man" -> <<"command_name">>
      [] tool = "history" -> <<"n">>
      [] tool = "env" -> <<>>

\* @cached(ttl_cache) for ls, history, env; @cached(lru_cache) for man
Tier(tool) == IF tool \in LruTools THEN "lru" ELSE "ttl"

\* argument values the calls of the model use
LsPaths == {"."}
HistoryN == {1}
ManNames == {"ls", "cat", "nope"}

ArgValues(tool) ==
    CASE tool = "ls" -> {PyStr(p) : p \in LsPaths}
      [] tool = "man" -> {PyStr(c) : c \in ManNames}
      [] tool = "history" -> {PyInt(i) : i \in HistoryN}
      [] tool = "env" -> {}

\* A call as the caller writes it: positional arguments and keyword arguments
\* (kwargs: a function from parameter names to values).
NoKwargs == [x \in {} |-> kwmark]
CallForms(tool) ==
    IF Params(tool) = <<>>
    THEN {[args |-> <<>>, kwargs |-> NoKwargs]}
    ELSE {[args |-> <<v>>, kwargs |-> NoKwargs] : v \in ArgValues(tool)}
         \cup {[args |-> <<>>, kwargs |-> [x \in {Params(tool)[1]} |-> v]] :
                 v \in ArgValues(tool)}

\* log_io is built with the decorator package, which keeps the signature and
\* calls f with every parameter bound by position, with no keyword arguments.
log_io(tool, call) ==
    [args |-> [i \in 1..Len(Params(tool)) |->
                 IF i <= Len(call.args) THEN call.args[i]
                 ELSE call.kwargs[Params(tool)[i]]],
     kwargs |-> NoKwargs]

\* cachetools.keys.hashkey, the default key of cached():
\* the positional arguments, then the marker and the sorted keyword items.
\* (The tools have at most one parameter, so at most one keyword item.)
hashkey(call) ==
    IF DOMAIN call.kwargs = {} THEN call.args
    ELSE LET name == CHOOSE x \in DOMAIN call.kwargs : TRUE
         IN call.args \o <<kwmark, PyStr(name), call.kwargs[name]>>

\* the key computed from the call as the caller wrote it, not as log_io binds it
CacheKey_raw(tool, call) == hashkey(call)

\* the key under which the cached wrapper of a tool looks a call up
CacheKey(tool, call) == hashkey(log_io(tool, call))

(***************************************************************************)
(* The tool bodies, as functions of what they read from the machine.        *)
(***************************************************************************)
RECURSIVE LeadingSlashes(_)
\* the number of slashes a path begins with
LeadingSlashes(path) ==
    IF path # "" /\ Head(path) = "/" THEN 1 + LeadingSlashes(Tail(path)) ELSE 0

\* pathlib, POSIX flavour: the root of a path is "/" for one leading slash
\* and for three or more, "//" for exactly two, "" for a relative path
splitroot(path) ==
    LET k == LeadingSlashes(path)
    IN IF k = 0 THEN "" ELSE IF k = 2 THEN "//" ELSE "/"

RECURSIVE parse_parts(_, _)
\* pathlib: the components between the slashes of path, those that are
\* empty or "." left out; part is the component being read
parse_parts(path, part) ==
    LET done == IF part \in {"", "."} THEN <<>> ELSE <<part>>
    IN IF path = "" THEN done
       ELSE IF Head(path) = "/" THEN done \o parse_parts(Tail(path), "")
       ELSE parse_parts(Tail(path), part \o Head(path))

\* Path(path)
Path(path) == [root |-> splitroot(path), parts |-> parse_parts(path, "")]

RECURSIVE JoinParts(_)
\* "/".join(parts)
JoinParts(parts) ==
    IF parts = <<>> THEN ""
    ELSE IF Len(parts) = 1 THEN parts[1]
    ELSE parts[1] \o "/" \o JoinParts(Tail(parts))

\* str(p) of a path p: "." for the path without root and components
PathToStr(p) ==
    IF p.root = "" /\ p.parts = <<>> THEN "." ELSE p.root \o JoinParts(p.parts)

\* str(x) for the x that Path(path).iterdir() yields for the entry name
PathStr(path, name) ==
    LET p == Path(path) IN PathToStr([p EXCEPT !.parts = Append(@, name)])

\* What the file system holds at a path: whether stat() of the path goes
\* through (it fails with EACCES under a directory that may not be searched),
\* what is there, the entries in the order the system lists them, and whether
\* a directory there may be listed.
FsNodes ==
    {[stat |-> "ok", kind |-> "missing", entries |-> <<>>, readable |-> TRUE],
     [stat |-> "ok", kind |-> "file", entries |-> <<>>, readable |-> TRUE],
     [stat |-> "ok", kind |-> "dir", entries |-> <<>>, readable |-> TRUE],
     [stat |-> "ok", kind |-> "dir", entries |-> <<"a", "b">>, readable |-> TRUE],
     [stat |-> "ok", kind |-> "dir", entries |-> <<"b", "a">>, readable |-> TRUE],
     [stat |-> "ok", kind |-> "dir", entries |-> <<"a">>, readable |-> FALSE],
     [stat |-> "EACCES", kind |-> "file", entries |-> <<>>, readable |-> TRUE],
     [stat |-> "EACCES", kind |-> "dir", entries |-> <<"a">>, readable |-> TRUE]}

\* ls(path): exists() and is_dir() stat the path and pass on every error
\* other than that of a path that is not there; [] unless path is a
\* directory; iterdir() raises on a directory that cannot be read
ls(path, node) ==
    IF node.stat # "ok" THEN Raised
    ELSE IF node.kind # "dir" THEN RList(<<>>)
    ELSE IF ~node.readable THEN Raised
    ELSE RList([i \in 1..Len(node.entries) |-> PathStr(path, node.entries[i])])

\* what subprocess.run(["man", name], check=True, ...) does
ManOutcomes ==
    {[kind |-> "ok", stdout |-> "PAGE"],
     [kind |-> "CalledProcessError", stdout |-> ""],
     [kind |-> "FileNotFoundError", stdout |-> ""],
     [kind |-> "OtherError", stdout |-> ""]}

\* man(command_name): stdout, "" for the two exceptions it catches; any other
\* exception leaves the function
man(out) ==
    CASE out.kind = "ok" -> RStr(out.stdout)
      [] out.kind = "CalledProcessError" -> RStr("")
      [] out.kind = "FileNotFoundError" -> RStr("")
      [] OTHER -> Raised

\* A line of the history file is a sequence of characters.  A character of
\* ASCII is the string of that one character; any other character is the
\* string of its name, "U+" and the four hexadecimal digits of its code point
\* ("U+2003" is EM SPACE, one character).
\* The characters str.strip() removes, those str.isspace() holds of: tab,
\* line feed, vertical tab, form feed, carriage return, U+001C to U+001F and
\* space in ASCII, and the 19 beyond it.
Whitespace ==
    {"\t", "\n", "\f", "\r", " ", "", "", "", "", "",
     "U+0085", "U+00A0", "U+1680", "U+2000", "U+2001", "U+2002", "U+2003",
     "U+2004", "U+2005", "U+2006", "U+2007", "U+2008", "U+2009", "U+200A",
     "U+2028", "U+2029", "U+202F", "U+205F", "U+3000"}
RECURSIVE lstrip(_)
lstrip(line) ==
    IF line # <<>> /\ Head(line) \in Whitespace THEN lstrip(Tail(line)) ELSE line
RECURSIVE rstrip(_)
rstrip(line) ==
    IF line # <<>> /\ line[Len(line)] \in Whitespace
    THEN rstrip(SubSeq(line, 1, Len(line) - 1)) ELSE line
\* str.strip()
strip(line) == rstrip(lstrip(line))
RECURSIVE Join(_)
\* the characters as one string (a character beyond ASCII shows as its name)
Join(line) == IF line = <<>> THEN "" ELSE Head(line) \o Join(Tail(line))

RECURSIVE ScanBack(_, _, _)
\* for line in reversed(all_lines): stop at n commands, keep the valid lines
ScanBack(lines, n, valid_commands) ==
    IF lines = <<>> \/ Len(valid_commands) = n THEN valid_commands
    ELSE LET stripped_line == strip(lines[Len(lines)])
             rest == SubSeq(lines, 1, Len(lines) - 1)
         IN IF stripped_line # <<>> /\ Head(stripped_line) # "#"
            THEN ScanBack(rest, n, Append(valid_commands, Join(stripped_line)))
            ELSE ScanBack(rest, n, valid_commands)

\* list.reverse()
Reverse(q) == [i \in 1..Len(q) |-> q[Len(q) + 1 - i]]

\* what the history file is: a path that cannot be examined (stat() fails
\* with EACCES), absent, unreadable, or its lines
HistFiles ==
    {[stat |-> "EACCES", is_file |-> TRUE, readable |-> TRUE,
      lines |-> << <<"l", "s", "\n">> >>],
     [stat |-> "ok", is_file |-> FALSE, readable |-> TRUE, lines |-> <<>>],
     [stat |-> "ok", is_file |-> TRUE, readable |-> FALSE, lines |-> <<>>],
     [stat |-> "ok", is_file |-> TRUE, readable |-> TRUE,
      lines |-> << <<"l", "s", "\n">>, <<"#", "x", "\n">>, <<"\n">>,
                   <<"U+2003", "c", "d", "U+3000", "\n">> >>],
     [stat |-> "ok", is_file |-> TRUE, readable |-> TRUE,
      lines |-> << <<"#", "x", "\n">> >>]}

\* history(n): is_file() stats the path outside the try statement and passes
\* on every error other than that of a path that is not there; the errors of
\* opening and reading the file are caught
history(n, file) ==
    IF n <= 0 THEN RList(<<>>)
    ELSE IF file.stat # "ok" THEN Raised
    ELSE IF ~file.is_file THEN RList(<<>>)
    ELSE IF ~file.readable THEN RList(<<>>)
    ELSE RList(Reverse(ScanBack(file.lines, n, <<>>)))

\* os.environ at the time of a call
Environs == { << <<"HOME", "/h">> >>, << <<"HOME", "/h">>, <<"X", "1">> >> }

\* env(): dict(os.environ)
env(environ) == RDict(environ)

\* The results a tool body can produce for one call, over everything the
\* machine can hold at the time of the call.
BodyResults(tool, args) ==
    CASE tool = "ls" -> {ls(args[1].s, node) : node \in FsNodes}
      [] tool = "man" -> {man(out) : out \in ManOutcomes}
      [] tool = "history" -> {history(args[1].n, file) : file \in HistFiles}
      [] tool = "env" -> {env(environ) : environ \in Environs}

(***************************************************************************)
(* State.                                                                   *)
(***************************************************************************)
VARIABLES
    clock,       \* time.monotonic(), the timer of ttl_cache
    ttl_cache,   \* server.py: ttl_cache = TTLCache(maxsize=1024, ttl=5)
    lru_cache,   \* server.py: lru_cache = LRUCache(maxsize=1024)
    running,     \* the tool call the server's event loop is executing (0: none)
    handler,     \* the tool calls in flight in the server, each with its position
    recency,     \* history: the cached man keys by their latest use, oldest first
    watch,       \* history: one insertion into ttl_cache that is being followed
    workload,    \* the calls the clients of the server make in one run
    bashme_client,  \* the names module bashme.client binds where the daemon runs
    api_key,     \* agent_daemon.py: whether BASHME_API_KEY is set
    daemon,      \* the daemon process: "importing", "import_failed", "starting",
                 \* "serving" or "startup_failed"
    lifespan,    \* agent_daemon.py: where lifespan() is ("none" before it runs)
    session,     \* the tool-registry session lifespan() opens: none, open, closed
    agent_executor,  \* agent_daemon.py: the global: "unbound" until the module
                     \* has assigned it, then "None" or "graph"
    req          \* the requests to /generate, each with its loop state

\* The tool calls the server can have in flight at once.
Handlers == {1, 2}

(***************************************************************************)
(* cachetools.TTLCache: data (key -> value), links (the OrderedDict __links, *)
(* least recently used first) and list (the linked list of links from       *)
(* __root, earliest expiry first).  A stored value carries who computed it  *)
(* (by) and from which argument values (argset), and a call the keys its    *)
(* insertion evicted (evicted) and, where the body's input is followed, what *)
(* the body read from the machine (read): history for the claims.           *)
(***************************************************************************)
NoData == [x \in {} |-> NoValue]
EmptyTTLCache == [data |-> NoData, links |-> <<>>, list |-> <<>>]
EmptyLRUCache == [data |-> NoData, order |-> <<>>]

RECURSIVE Unlink(_, _)
\* link.unlink(): the list without the link of key k
Unlink(list, k) ==
    IF list = <<>> THEN <<>>
    ELSE IF Head(list).key = k THEN Unlink(Tail(list), k)
    ELSE <<Head(list)>> \o Unlink(Tail(list), k)

\* link.expires of the link of key k
Expires(c, k) == (CHOOSE e \in SeqToSet(c.list) : e.key = k).expires

\* TTLCache.__delitem__
TTLCache_delitem(c, k) ==
    [data |-> Drop(c.data, k), links |-> Remove(c.links, k), list |-> Unlink(c.list, k)]

\* TTLCache.__getitem__(key) at time now: __getlink moves the link to the end
\* of __links, then an expired link is a miss (__missing__ raises KeyError)
TTLCache_getitem(c, k, now) ==
    IF k \notin SeqToSet(c.links)
    THEN [cache |-> c, hit |-> FALSE, entry |-> NoValue]
    ELSE LET c1 == [c EXCEPT !.links = MoveToEnd(@, k)]
         IN IF ~(now < Expires(c, k))
            THEN [cache |-> c1, hit |-> FALSE, entry |-> NoValue]
            ELSE [cache |-> c1, hit |-> TRUE, entry |-> c.data[k]]

RECURSIVE TTLCache_expire(_, _)
\* TTLCache.expire(time): drop links from the head of the list while expired
TTLCache_expire(c, time) ==
    IF c.list # <<>> /\ ~(time < Head(c.list).expires)
    THEN TTLCache_expire(TTLCache_delitem(c, Head(c.list).key), time)
    ELSE c

\* TTLCache.popitem(): expire, then remove the first key of __links
TTLCache_popitem(c, time) ==
    LET c1 == TTLCache_expire(c, time)
    IN IF c1.links = <<>> THEN c1 ELSE TTLCache_delitem(c1, Head(c1.links))

RECURSIVE TTLCache_evict(_, _)
\* Cache.__setitem__: while self.currsize + size > maxsize: self.popitem()
TTLCache_evict(c, time) ==
    IF Cardinality(DOMAIN c.data) + 1 > TtlMaxsize /\ c.links # <<>>
    THEN TTLCache_evict(TTLCache_popitem(c, time), time)
    ELSE c

\* TTLCache.__setitem__, first half: expire(time), then Cache.__setitem__
\* makes room unless the key is already stored
TTLCache_makeroom(c, k, time) ==
    LET c1 == TTLCache_expire(c, time)
    IN IF k \in DOMAIN c1.data THEN c1 ELSE TTLCache_evict(c1, time)

\* TTLCache.__setitem__ giving the entry a second less to live
TTLCache_store_short(c, k, v, time) ==
    [data |-> Put(c.data, k, v),
     links |-> MoveToEnd(c.links, k),
     list |-> Append(Unlink(c.list, k), [key |-> k, expires |-> time + ttl - 1])]

\* TTLCache.__setitem__, second half: store the value, then put the key's link
\* at the end of __links and of the list with expires = time + ttl
TTLCache_store(c, k, v, time) ==
    [data |-> Put(c.data, k, v),
     links |-> MoveToEnd(c.links, k),
     list |-> Append(Unlink(c.list, k), [key |-> k, expires |-> time + ttl])]

(***************************************************************************)
(* cachetools.LRUCache: data and order (the OrderedDict __order, least      *)
(* recently used first).                                                    *)
(***************************************************************************)
\* LRUCache.__getitem__ that leaves the order as it is
LRUCache_getitem_still(c, k) ==
    IF k \notin DOMAIN c.data
    THEN [cache |-> c, hit |-> FALSE, entry |-> NoValue]
    ELSE [cache |-> c, hit |-> TRUE, entry |-> c.data[k]]

\* LRUCache.__getitem__: a hit moves the key to the end of __order
LRUCache_getitem(c, k) ==
    IF k \notin DOMAIN c.data
    THEN [cache |-> c, hit |-> FALSE, entry |-> NoValue]
    ELSE [cache |-> [c EXCEPT !.order = MoveToEnd(@, k)],
          hit |-> TRUE, entry |-> c.data[k]]

\* LRUCache.popitem(): remove the first key of __order
LRUCache_popitem(c) ==
    IF c.order = <<>> THEN c
    ELSE [data |-> Drop(c.data, Head(c.order)), order |-> Tail(c.order)]

RECURSIVE LRUCache_evict(_)
\* Cache.__setitem__: while self.currsize + size > maxsize: self.popitem()
LRUCache_evict(c) ==
    IF Cardinality(DOMAIN c.data) + 1 > LruMaxsize /\ c.order # <<>>
    THEN LRUCache_evict(LRUCache_popitem(c))
    ELSE c

\* Cache.__setitem__, first half: make room unless the key is already stored
LRUCache_makeroom(c, k) ==
    IF k \in DOMAIN c.data THEN c ELSE LRUCache_evict(c)

\* Cache.__setitem__, second half, then LRUCache's move of the key to the end
LRUCache_store(c, k, v) ==
    [data |-> Put(c.data, k, v), order |-> MoveToEnd(c.order, k)]

(***************************************************************************)
(* A tool call in the server.  cachetools' wrapper around a tool is         *)
(*     k = key(args, kwargs)                                                *)
(*     try: return cache[k]           except KeyError: pass                 *)
(*     v = func(args, kwargs)                                               *)
(*     try: cache[k] = v              except ValueError: pass               *)
(*     return v                                                             *)
(* and log_io around it logs and hands on what it returns or raises.        *)
(* cached() is given no lock.  The tools are plain (not async) functions,   *)
(* so the server's event loop runs the whole of one call before it runs any *)
(* step of another.                                                         *)
(***************************************************************************)
IdleHandler ==
    [pc |-> "idle", tool |-> "", args |-> <<>>, key |-> <<>>, argset |-> {},
     value |-> NoValue, hit |-> FALSE, by |-> "", time |-> 0, evicted |-> {},
     read |-> <<>>]

\* The latest insertion of one key into ttl_cache is followed for ttl seconds:
\* the key, whether an insertion is being followed, the time and the value it
\* stored, and whether the entry has since been evicted to make room.
NoKey == <<kwmark>>
Unwatched(k) ==
    [key |-> k, on |-> FALSE, time |-> 0, value |-> NoValue, evicted |-> FALSE]

\* the argument values of a call, however they were passed
ArgSet(call) == SeqToSet(call.args) \cup {call.kwargs[x] : x \in DOMAIN call.kwargs}

\* calls run on threads of their own: any call can take its next step
CanStepThreads(h) == TRUE

\* The event loop has one thread: a call takes a step only when no other call
\* is in the middle of its own.
CanStep(h) == running \in {0, h}

\* a call as it enters the wrapper: log_io has bound the arguments, k is computed
Entered(tool, call) ==
    [IdleHandler EXCEPT !.pc = "lookup", !.tool = tool,
                        !.args = log_io(tool, call).args,
                        !.key = CacheKey(tool, call),
                        !.argset = ArgSet(call)]

\* what is stored for a call: the value, with who computed it and from what
Entry(hd) == [value |-> hd.value, by |-> hd.tool, argset |-> hd.argset]

\* try: return cache[k], for the call hd on the caches cs at time now
AfterLookup(hd, cs, now) ==
    LET r == IF Tier(hd.tool) = "ttl" THEN TTLCache_getitem(cs.ttl, hd.key, now)
             ELSE LRUCache_getitem(cs.lru, hd.key)
    IN [hd |-> IF r.hit
               THEN [hd EXCEPT !.pc = "return", !.hit = TRUE,
                               !.value = r.entry.value, !.by = r.entry.by]
               ELSE [hd EXCEPT !.pc = "body"],
        cs |-> IF Tier(hd.tool) = "ttl" THEN [cs EXCEPT !.ttl = r.cache]
               ELSE [cs EXCEPT !.lru = r.cache],
        rec |-> IF Tier(hd.tool) = "lru" /\ r.hit THEN MoveToEnd(cs.rec, hd.key)
                ELSE cs.rec,
        w |-> cs.w]

\* v = func(args, kwargs) returned v (an exception leaves the wrapper, and
\* log_io, with nothing stored)
AfterBody(hd, v) ==
    IF v = Raised THEN [hd EXCEPT !.pc = "return", !.value = Raised]
    ELSE [hd EXCEPT !.pc = "setitem", !.value = v, !.by = hd.tool]

\* cache[k] = v, first half: read the timer, expire, evict while full
AfterMakeRoom(hd, cs, now) ==
    LET ttl1 == IF Tier(hd.tool) = "ttl" THEN TTLCache_makeroom(cs.ttl, hd.key, now)
                ELSE cs.ttl
        lru1 == IF Tier(hd.tool) = "lru" THEN LRUCache_makeroom(cs.lru, hd.key)
                ELSE cs.lru
    IN [hd |-> [hd EXCEPT !.pc = "store", !.time = now,
                          !.evicted =
                              IF Tier(hd.tool) = "ttl"
                              THEN DOMAIN TTLCache_expire(cs.ttl, now).data
                                       \ DOMAIN ttl1.data
                              ELSE DOMAIN cs.lru.data \ DOMAIN lru1.data],
        cs |-> [cs EXCEPT !.ttl = ttl1, !.lru = lru1],
        rec |-> SelectSeq(cs.rec, LAMBDA x : x \in DOMAIN lru1.data),
        w |-> IF /\ Tier(hd.tool) = "ttl" /\ cs.w.on
                 /\ cs.w.key \in DOMAIN TTLCache_expire(cs.ttl, now).data
                 /\ cs.w.key \notin DOMAIN ttl1.data
              THEN [cs.w EXCEPT !.evicted = TRUE] ELSE cs.w]

\* cache[k] = v, second half: store the value and make the key the most recent
AfterStore(hd, cs) ==
    [hd |-> [hd EXCEPT !.pc = "return"],
     cs |-> IF Tier(hd.tool) = "ttl"
            THEN [cs EXCEPT !.ttl = TTLCache_store(cs.ttl, hd.key, Entry(hd), hd.time)]
            ELSE [cs EXCEPT !.lru = LRUCache_store(cs.lru, hd.key, Entry(hd))],
     rec |-> IF Tier(hd.tool) = "lru" THEN MoveToEnd(cs.rec, hd.key) ELSE cs.rec,
     w |-> IF Tier(hd.tool) = "ttl" /\ hd.key = cs.w.key
           THEN [key |-> hd.key, on |-> TRUE, time |-> hd.time,
                 value |-> hd.value, evicted |-> FALSE]
           ELSE cs.w]

\* the caches and their history, as one value
Caches == [ttl |-> ttl_cache, lru |-> lru_cache, rec |-> recency, w |-> watch]
With(r) == [ttl |-> r.cs.ttl, lru |-> r.cs.lru, rec |-> r.rec, w |-> r.w]

\* the whole wrapper for one call whose body, if it runs, returns v
AfterCall(hd, cs, now, v) ==
    LET a == AfterLookup(hd, cs, now)
        b == AfterBody(a.hd, v)
    IN IF a.hd.pc = "return" THEN a
       ELSE IF b.pc = "return" THEN [a EXCEPT !.hd = b]
       ELSE AfterStore(AfterMakeRoom(b, With(a), now).hd,
                       With(AfterMakeRoom(b, With(a), now)))

Becomes(h, r) ==
    /\ handler' = [handler EXCEPT ![h] = r.hd]
    /\ ttl_cache' = r.cs.ttl
    /\ lru_cache' = r.cs.lru
    /\ recency' = r.rec
    /\ watch' = r.w
    /\ UNCHANGED workload

\* time passes (an insertion is followed for ttl seconds)
Tick ==
    /\ clock < MaxTime
    /\ clock' = clock + 1
    /\ watch' = IF watch.on /\ ~(clock' - watch.time < ttl)
                THEN Unwatched(watch.key) ELSE watch
    /\ UNCHANGED <<ttl_cache, lru_cache, running, handler, recency, workload>>

\* One call, run from its start to its return value by the event loop.
Call(h, tool, call) ==
    /\ CanStep(h)
    /\ handler[h].pc = "idle"
    /\ \E v \in BodyResults(tool, log_io(tool, call).args) :
         Becomes(h, AfterCall(Entered(tool, call), Caches, clock, v))
    /\ running' = h
    /\ UNCHANGED clock

\* The same call, step by step.  A request arrives and waits for the loop:
Receive(h, tool, call) ==
    /\ handler[h].pc = "idle"
    /\ handler' = [handler EXCEPT ![h] = Entered(tool, call)]
    /\ UNCHANGED <<clock, ttl_cache, lru_cache, running, recency, watch, workload>>

Lookup(h) ==
    /\ CanStep(h)
    /\ handler[h].pc = "lookup"
    /\ Becomes(h, AfterLookup(handler[h], Caches, clock))
    /\ running' = h
    /\ UNCHANGED clock

Body(h) ==
    /\ CanStep(h)
    /\ handler[h].pc = "body"
    /\ \E v \in BodyResults(handler[h].tool, handler[h].args) :
         handler' = [handler EXCEPT ![h] = AfterBody(handler[h], v)]
    /\ UNCHANGED <<clock, ttl_cache, lru_cache, running, recency, watch, workload>>

MakeRoom(h) ==
    /\ CanStep(h)
    /\ handler[h].pc = "setitem"
    /\ Becomes(h, AfterMakeRoom(handler[h], Caches, clock))
    /\ UNCHANGED <<clock, running>>

Store(h) ==
    /\ CanStep(h)
    /\ handler[h].pc = "store"
    /\ Becomes(h, AfterStore(handler[h], Caches))
    /\ UNCHANGED <<clock, running>>

\* return: the call is over and the event loop is free again
Return(h) ==
    /\ CanStep(h)
    /\ handler[h].pc = "return"
    /\ handler' = [handler EXCEPT ![h] = IdleHandler]
    /\ running' = 0
    /\ UNCHANGED <<clock, ttl_cache, lru_cache, recency, watch, workload>>

serverVars == <<clock, ttl_cache, lru_cache, running, handler, recency, watch,
                workload>>
daemonVars == <<bashme_client, api_key, daemon, lifespan, session, agent_executor, req>>
vars == <<clock, ttl_cache, lru_cache, running, handler, recency, watch, workload,
          bashme_client, api_key, daemon, lifespan, session, agent_executor, req>>

(***************************************************************************)
(* client.py: the graph create_graph builds.  State has one key, messages,  *)
(* declared as a plain list (no reducer), so what a node returns for it     *)
(* replaces the value the state held.                                       *)
(***************************************************************************)
Requests == {1, 2}

\* The content of a message is a str, a sequence of characters here, or for
\* the message of a model also a list of content blocks.
UserContext == <<"c", "t", "x">>
\* the texts the model can answer with
Contents == {<<>>, <<"a", "\r", "\n", "b", "\r", "\n">>, <<"U+2003">>}
\* the lists of content blocks the model can answer with: ['a', 'b']
ContentBlocks == {<<"a", "b">>}
\* the tools one response of the model can ask for, in the order of its
\* tool_calls: bound tools, and man, which the server registers as a resource
\* and load_mcp_tools therefore does not bind
ToolRequests == {<<"ls">>, <<"man", "ls">>, <<"env", "ls", "history">>}
\* tools = await load_mcp_tools(session): the server's @mcp.tool() functions
BoundTools == {"ls", "history", "env"}

\* a message; content_type is the Python type of its content
Message(type, content_type, content, tool_calls, tool_call_id, id) ==
    [type |-> type, content_type |-> content_type, content |-> content,
     tool_calls |-> tool_calls, tool_call_id |-> tool_call_id, id |-> id]
HumanMessage(content, id) == Message("human", "str", content, <<>>, <<>>, id)
AIMessage(content, tool_calls, id) ==
    Message("ai", "str", content, tool_calls, <<>>, id)
\* the message of a model whose content is a list of blocks
AIMessageBlocks(blocks, id) == Message("ai", "list", blocks, <<>>, <<>>, id)
ToolMessage(content, tool_call_id, id) ==
    Message("tool", "str", content, <<>>, tool_call_id, id)

\* the contents ToolNode gives the tool message of a call that failed: for
\* a name that is not bound, for a session that is not open, and for a tool
\* of the server that raised
ErrInvalidTool == <<"E", "r", "r", "o", "r", ":", " ", "n", "o", " ", "t", "o", "o", "l">>
ErrToolRaised == <<"E", "r", "r", "o", "r", ":", " ", "c", "l", "o", "s", "e", "d">>
ErrToolFailed == <<"E", "r", "r", "o", "r", ":", " ", "t", "o", "o", "l">>
ToolOutput == <<"o", "u", "t">>

\* Messages and tool calls get fresh ids (uuids): the i-th thing made in
\* step number step of the run for request r is given the id <<r, step, i>>.
NewId(r, step, i) == <<r, step, i>>

\* the responses the model can give in a step: a final message, or a
\* message of tool calls, each with an id of its own
ModelResponses(r, step) ==
    {AIMessage(c, <<>>, NewId(r, step, 0)) : c \in Contents}
    \cup {AIMessageBlocks(b, NewId(r, step, 0)) : b \in ContentBlocks}
    \cup {AIMessage(<<>>,
                    [i \in 1..Len(names) |->
                       [id |-> NewId(r, step, i), name |-> names[i]]],
                    NewId(r, step, 0)) : names \in ToolRequests}

RECURSIVE add_messages(_, _)
\* langgraph's add_messages(left, right): a right message whose id a left
\* message has replaces it, any other is appended
add_messages(left, right) ==
    IF right = <<>> THEN left
    ELSE LET m == Head(right)
             same == {i \in 1..Len(left) : left[i].id = m.id}
         IN add_messages(IF same = {} THEN Append(left, m)
                         ELSE [i \in 1..Len(left) |-> IF i \in same THEN m ELSE left[i]],
                         Tail(right))

\* chat_node's return value: {"messages": add_messages(state["messages"], [response])}
chat_node(messages, response) == add_messages(messages, <<response>>)

\* tools_condition that ends the loop whatever the response holds
tools_condition_end(messages) == "__end__"

\* langgraph.prebuilt.tools_condition on the state chat_node left, mapped by
\* add_conditional_edges: {"tools": "tool_node", "__end__": END}
tools_condition(messages) ==
    IF messages # <<>> /\ messages[Len(messages)].tool_calls # <<>>
    THEN "tool_node" ELSE "__end__"

\* what the body of a bound tool can do when the server runs it for a call:
\* return, and for the tools whose body can raise also raise
ToolOutcomes(name) ==
    IF /\ name \in BoundTools
       /\ \E call \in CallForms(name) :
            Raised \in BodyResults(name, log_io(name, call).args)
    THEN {"return", "raise"} ELSE {"return"}

\* one tool call of ToolNode, through the session create_graph was given: an
\* unknown name and an exception, of the session or of the tool, both become
\* the message's content
InvokeTool(tool_call, sess, outcome) ==
    IF tool_call.name \notin BoundTools THEN ErrInvalidTool
    ELSE IF sess # "open" THEN ErrToolRaised
    ELSE IF outcome = "raise" THEN ErrToolFailed
    ELSE ToolOutput

\* the call is for a tool of the server and the session, or the tool, raises
ToolRaises(tool_call, sess, outcome) ==
    tool_call.name \in BoundTools /\ (sess # "open" \/ outcome = "raise")

\* a ToolNode that lets the exceptions of its tools through
handle_tool_errors_off == FALSE

\* ToolNode(tools=tools): handle_tool_errors is left at its default, True, and
\* the exception of a tool becomes the content of its tool message
handle_tool_errors == TRUE

\* the result recorded for call i among results (in the order they finished)
ResultOf(results, i) == (CHOOSE x \in SeqToSet(results) : x.index = i).content

\* ToolNode's outputs: asyncio.gather returns the results in the order of the
\* calls, whichever finished first; one ToolMessage per call
GatherOutputs(tool_calls, results, r, step) ==
    [i \in 1..Len(tool_calls) |->
       ToolMessage(ResultOf(results, i), tool_calls[i].id, NewId(r, step, i))]

\* The value of State's messages after a node returned update for it: the
\* key has no reducer, so the update is the new value.
State_messages(old, update) == update

\* the limit checked one step late
OutOfStepsLate(step) == step > RecursionLimit

\* the graph stops with GraphRecursionError once it has run recursion_limit steps
OutOfSteps(step) == step >= RecursionLimit

(***************************************************************************)
(* agent_daemon.py: generate_command.                                       *)
(***************************************************************************)
RECURSIVE split(_, _)
\* str.split(sep)
split(chars, sep) ==
    IF \A i \in 1..Len(chars) : chars[i] # sep THEN <<chars>>
    ELSE LET i == CHOOSE j \in 1..Len(chars) :
                    chars[j] = sep /\ \A x \in 1..(j - 1) : chars[x] # sep
         IN <<SubSeq(chars, 1, i - 1)>> \o split(SubSeq(chars, i + 1, Len(chars)), sep)

\* the same answer without the # in front
AgentNotInitialized_bare == <<"Agent not initialized. Check server logs.">>

\* {"suggestions": ["# Agent not initialized. Check server logs."]}
AgentNotInitialized == <<"#", " ", "Agent not initialized. Check server logs.">>
\* the error reported without the # in front
ErrorMarker_bare(e) == <<"Error: ", e>>

\* {"suggestions": [f"# Error: {e}"]}
ErrorMarker(e) == <<"#", " ", "Error: ", e>>

\* the AttributeError of calling strip() on a list
NoStrip == "'list' object has no attribute 'strip'"

\* The suggestions generate_command returns for the state the graph ended
\* in: none for a content that is empty, the lines of the stripped content
\* for a str, and for a list of blocks, which has no strip(), the marker of
\* the exception, which the try statement around these lines catches.
Suggestions(messages) ==
    LET final_message == messages[Len(messages)]
    IN IF final_message.content = <<>> THEN <<>>
       ELSE IF final_message.content_type # "str" THEN <<ErrorMarker(NoStrip)>>
       ELSE split(strip(final_message.content), "\n")

\* every run of the graph on one state of its own
ThreadShared(r) == 1

\* graph_builder.compile() is given no checkpointer and ainvoke no thread: the
\* state of a run of the graph is kept in that run, one for each request
Thread(r) == r

\* the conversation in the state of the run for request r
Conversation(r) == req[Thread(r)].messages

\* A run of the graph and what started it (via): a request to the daemon
\* ("daemon") or a run of the client program ("client"), which prints to stdout.
IdleReq ==
    [pc |-> "idle", via |-> "none", messages |-> <<>>, step |-> 0,
     results |-> <<>>, error |-> "", suggestions |-> <<>>, stdout |-> <<>>]

\* The session the tools of the run for r call through: the one lifespan
\* opened for the daemon's graph; for a run of the client the one main holds
\* open around create_graph and ainvoke.
SessionOf(r) == IF req[r].via = "client" THEN "open" ELSE session

\* a request arrives: without agent_executor it is answered at once; otherwise
\* the graph is invoked on a conversation of one user message
Generate(r) ==
    /\ daemon = "serving"
    /\ req[r].pc \in {"idle", "returned"}
    /\ IF agent_executor = "None"
       THEN req' = [req EXCEPT ![r] =
                      [IdleReq EXCEPT !.pc = "returned", !.via = "daemon",
                                      !.suggestions = <<AgentNotInitialized>>]]
       ELSE req' = [req EXCEPT ![r] = [IdleReq EXCEPT !.pc = "chat_node",
                                                      !.via = "daemon"],
                               ![Thread(r)].messages =
                                   <<HumanMessage(UserContext, NewId(r, -1, 0))>>]
    /\ UNCHANGED <<bashme_client, api_key, daemon, lifespan, session, agent_executor>>

\* the next node is due but the graph has used up its steps
RecursionError(r) ==
    /\ req[r].pc \in {"chat_node", "tool_node"}
    /\ req[r].results = <<>>
    /\ OutOfSteps(req[r].step)
    /\ req' = [req EXCEPT ![r].pc = "except", ![r].error = "GraphRecursionError"]
    /\ UNCHANGED <<bashme_client, api_key, daemon, lifespan, session, agent_executor>>

\* chat_node: the model is called on the conversation; its response is added
\* and tools_condition picks the next node.  A failing model call raises.
ChatNode(r) ==
    /\ req[r].pc = "chat_node"
    /\ ~OutOfSteps(req[r].step)
    /\ \/ \E response \in ModelResponses(r, req[r].step) :
            LET new == State_messages(Conversation(r),
                                      chat_node(Conversation(r), response))
            IN req' = [req EXCEPT ![Thread(r)].messages = new,
                                  ![r].pc = tools_condition(new),
                                  ![r].step = @ + 1]
       \/ req' = [req EXCEPT ![r].pc = "except", ![r].error = "model call failed"]
    /\ UNCHANGED <<bashme_client, api_key, daemon, lifespan, session, agent_executor>>

\* the calls tool_node has to run for request r
PendingCalls(r) ==
    IF req[r].pc = "tool_node"
    THEN DOMAIN Conversation(r)[Len(Conversation(r))].tool_calls ELSE {}

\* tool_node: one of the calls of the last message finishes
RunTool(r, i) ==
    /\ req[r].pc = "tool_node"
    /\ ~OutOfSteps(req[r].step)
    /\ LET tool_calls == Conversation(r)[Len(Conversation(r))].tool_calls
       IN /\ i \in 1..Len(tool_calls)
          /\ \A x \in SeqToSet(req[r].results) : x.index # i
          /\ \E outcome \in ToolOutcomes(tool_calls[i].name) :
               IF ToolRaises(tool_calls[i], SessionOf(r), outcome) /\ ~handle_tool_errors
               THEN req' = [req EXCEPT ![r].pc = "except", ![r].error = "tool raised",
                                       ![r].results = <<>>]
               ELSE req' = [req EXCEPT ![r].results =
                              Append(@, [index |-> i,
                                         raised |-> ToolRaises(tool_calls[i],
                                                               SessionOf(r), outcome),
                                         content |-> InvokeTool(tool_calls[i],
                                                                SessionOf(r), outcome)])]
    /\ UNCHANGED <<bashme_client, api_key, daemon, lifespan, session, agent_executor>>

\* tool_node: every call has finished; the node returns {"messages": outputs}
ToolNode(r) ==
    /\ req[r].pc = "tool_node"
    /\ LET tool_calls == Conversation(r)[Len(Conversation(r))].tool_calls
       IN /\ Len(req[r].results) = Len(tool_calls)
          /\ req' = [req EXCEPT
                 ![Thread(r)].messages = State_messages(@,
                     GatherOutputs(tool_calls, req[r].results, r, req[r].step)),
                 ![r].results = <<>>,
                 ![r].step = @ + 1,
                 ![r].pc = "chat_node"]
    /\ UNCHANGED <<bashme_client, api_key, daemon, lifespan, session, agent_executor>>

\* ainvoke has returned or raised: the suggestions are built and returned
Respond(r) ==
    /\ req[r].via = "daemon"
    /\ req[r].pc \in {"__end__", "except"}
    /\ req' = [req EXCEPT ![r].pc = "returned",
                 ![r].suggestions =
                     IF req[r].pc = "__end__" THEN Suggestions(Conversation(r))
                     ELSE <<ErrorMarker(req[r].error)>>]
    /\ UNCHANGED <<bashme_client, api_key, daemon, lifespan, session, agent_executor>>

(***************************************************************************)
(* client.py: main, the program that answers one request and ends.          *)
(***************************************************************************)
\* A run of the client starts.  Without an API key main returns at once.
\* Otherwise it opens a session of its own with the server it starts, builds
\* the graph and invokes it on a conversation of one user message; a session
\* or a graph that cannot be made is an exception that leaves main.
ClientMain(r) ==
    /\ req[r].pc \in {"idle", "exited", "crashed"}
    /\ \E key \in BOOLEAN, made \in BOOLEAN :
         IF ~key
         THEN req' = [req EXCEPT ![r] = [IdleReq EXCEPT !.pc = "exited",
                                                        !.via = "client"]]
         ELSE IF ~made
         THEN req' = [req EXCEPT ![r] = [IdleReq EXCEPT !.pc = "crashed",
                                                        !.via = "client",
                                                        !.error = "startup failed"]]
         ELSE req' = [req EXCEPT ![r] = [IdleReq EXCEPT !.pc = "chat_node",
                                                        !.via = "client"],
                                 ![Thread(r)].messages =
                                     <<HumanMessage(UserContext, NewId(r, -1, 0))>>]
    /\ UNCHANGED <<bashme_client, api_key, daemon, lifespan, session, agent_executor>>

\* what main prints for the state the graph ended in: the content of the
\* final message unless it is empty
Printed(messages) ==
    LET final_message == messages[Len(messages)]
    IN IF final_message.content # <<>> THEN <<final_message.content>> ELSE <<>>

\* ainvoke has returned, and main prints and returns; or it has raised, and
\* the exception leaves main and ends the process
ClientExit(r) ==
    /\ req[r].via = "client"
    /\ req[r].pc \in {"__end__", "except"}
    /\ req' = [req EXCEPT ![r].pc = IF req[r].pc = "__end__" THEN "exited" ELSE "crashed",
                          ![r].stdout = IF req[r].pc = "__end__"
                                        THEN Printed(Conversation(r)) ELSE <<>>]
    /\ UNCHANGED <<bashme_client, api_key, daemon, lifespan, session, agent_executor>>

(***************************************************************************)
(* agent_daemon.py: the import of the module.                               *)
(***************************************************************************)
\* client.py: the names the module binds at its top level
ClientNames ==
    {"asyncio", "os", "logging", "TypedDict", "HumanMessage",
     "ChatPromptTemplate", "MessagesPlaceholder", "ChatGoogleGenerativeAI",
     "MultiServerMCPClient", "load_mcp_prompt", "load_mcp_tools", "StateGraph",
     "START", "END", "AnyMessage", "add_messages", "tools_condition", "ToolNode",
     "to_json", "click", "client", "logger", "State", "create_graph", "main"}

\* from bashme.client import create_graph, mcp_client
DaemonImports == {"create_graph", "mcp_client"}

\* The name the daemon imports and client.py does not bind.  Where a module
\* bashme.client binds it, it is taken to be what lifespan uses it as: a client
\* of the tool registry of which session("bashme_core") opens a session or
\* fails.
mcp_client == "mcp_client"

\* The modules bashme.client the daemon can find itself with: the one of
\* client.py, and one that binds mcp_client as well.
ClientModules == {ClientNames, ClientNames \cup {mcp_client}}

\* The module body of agent_daemon.py runs: the import from bashme.client
\* raises ImportError, which ends the process, when a name is missing;
\* otherwise the module goes on, assigns agent_executor = None and makes the
\* application, whose startup runs lifespan.
Import ==
    /\ daemon = "importing"
    /\ IF DaemonImports \subseteq bashme_client
       THEN /\ daemon' = "starting"
            /\ lifespan' = "start"
            /\ agent_executor' = "None"
       ELSE /\ daemon' = "import_failed"
            /\ UNCHANGED <<lifespan, agent_executor>>
    /\ UNCHANGED <<bashme_client, api_key, session, req>>

(***************************************************************************)
(* agent_daemon.py: lifespan, an @asynccontextmanager generator.            *)
(***************************************************************************)
\* Up to the with statement.  Without the key the generator returns before
\* its yield: entering the context manager raises ("generator didn't yield")
\* and the application's startup fails.  A session that cannot be opened is
\* an exception the try catches, and the generator goes on to its yield.
LifespanStart ==
    /\ lifespan = "start"
    /\ IF ~api_key
       THEN /\ lifespan' = "returned"
            /\ daemon' = "startup_failed"
            /\ UNCHANGED session
       ELSE \/ /\ session' = "open"
               /\ lifespan' = "create_graph"
               /\ UNCHANGED daemon
            \/ /\ lifespan' = "yielded"
               /\ daemon' = "serving"
               /\ UNCHANGED session
    /\ UNCHANGED <<bashme_client, api_key, agent_executor, req>>

\* agent_executor = await create_graph(session, api_key) inside the with
\* statement, which closes the session on the way out, whether create_graph
\* returned or raised; then the yield.
CreateGraph ==
    /\ lifespan = "create_graph"
    /\ \E built \in BOOLEAN :
         agent_executor' = IF built THEN "graph" ELSE agent_executor
    /\ session' = "closed"
    /\ lifespan' = "yielded"
    /\ daemon' = "serving"
    /\ UNCHANGED <<bashme_client, api_key, req>>

(***************************************************************************)
(* Specifications.                                                          *)
(***************************************************************************)
\* the keys the calls of the TTL-tier tools can have
TtlKeys == UNION {{CacheKey(tool, call) : call \in CallForms(tool)} : tool \in TtlTools}

\* a call as the server receives it: the tool and its arguments as bound
Calls(tools) ==
    UNION {{<<tool, log_io(tool, call).args>> : call \in CallForms(tool)} :
             tool \in tools}

InitServer ==
    /\ clock = 0
    /\ ttl_cache = EmptyTTLCache
    /\ lru_cache = EmptyLRUCache
    /\ running = 0
    /\ handler = [h \in Handlers |-> IdleHandler]
    /\ recency = <<>>

\* the daemon process before the body of its module has run
InitDaemon ==
    /\ daemon = "importing"
    /\ lifespan = "none"
    /\ session = "none"
    /\ agent_executor = "unbound"
    /\ req = [r \in Requests |-> IdleReq]

\* The daemon: its import, its startup and its requests.
Init ==
    /\ InitServer /\ watch = Unwatched(NoKey) /\ workload = Calls(Tools)
    /\ InitDaemon /\ bashme_client \in ClientModules /\ api_key \in BOOLEAN
Next ==
    /\ \/ Import
       \/ LifespanStart
       \/ CreateGraph
       \/ \E r \in Requests :
            \/ Generate(r)
            \/ ChatNode(r)
            \/ \E i \in PendingCalls(r) : RunTool(r, i)
            \/ ToolNode(r)
            \/ RecursionError(r)
            \/ Respond(r)
    /\ UNCHANGED serverVars
Spec == Init /\ [][Next]_vars

\* The server under calls of its TTL-tier tools, with the insertions of one
\* key followed.
InitTtl ==
    /\ InitServer /\ (\E k \in TtlKeys : watch = Unwatched(k))
    /\ workload = Calls(Tools)
    /\ InitDaemon /\ bashme_client = ClientNames /\ api_key = TRUE
NextTtl ==
    /\ \/ Tick
       \/ \E h \in Handlers :
            \/ \E tool \in TtlTools : \E call \in CallForms(tool) : Call(h, tool, call)
            \/ Return(h)
    /\ UNCHANGED daemonVars
SpecTtl == InitTtl /\ [][NextTtl]_vars

\* The server under reads of its LRU-tier resource.
InitLru ==
    /\ InitServer /\ watch = Unwatched(NoKey) /\ workload = Calls(Tools)
    /\ InitDaemon /\ bashme_client = ClientNames /\ api_key = TRUE
NextLru ==
    /\ \E h \in Handlers :
         \/ \E tool \in LruTools : \E call \in CallForms(tool) : Call(h, tool, call)
         \/ Return(h)
    /\ UNCHANGED daemonVars
SpecLru == InitLru /\ [][NextLru]_vars

\* The server with calls of both tiers in flight together, step by step.
\* The calls the clients make in one run are those of the tools that share
\* ttl_cache (three keys for a capacity of TtlMaxsize) with one of man, or
\* those of man (as many names as ManNames holds for a capacity of
\* LruMaxsize) with those of ls.
ConcTools == {"ls", "history", "env", "man"}
ConcWorkloads ==
    {Calls(TtlTools) \cup {<<"man", <<PyStr("ls")>> >>},
     Calls(LruTools) \cup Calls({"ls"})}
InitConc ==
    /\ InitServer /\ watch = Unwatched(NoKey) /\ workload \in ConcWorkloads
    /\ InitDaemon /\ bashme_client = ClientNames /\ api_key = TRUE
NextConc ==
    /\ \/ Tick
       \/ \E h \in Handlers :
            \/ \E tool \in ConcTools : \E call \in CallForms(tool) :
                 /\ <<tool, log_io(tool, call).args>> \in workload
                 /\ Receive(h, tool, call)
            \/ Lookup(h) \/ Body(h) \/ MakeRoom(h) \/ Store(h) \/ Return(h)
    /\ UNCHANGED daemonVars
SpecConc == InitConc /\ [][NextConc]_vars

\* The client program: runs of main, one after the other.  (Each run is a
\* process of its own with a server of its own.)
ClientRuns == {1}
InitClient ==
    /\ InitServer /\ watch = Unwatched(NoKey) /\ workload = Calls(Tools)
    /\ InitDaemon /\ bashme_client = ClientNames /\ api_key = TRUE
NextClient ==
    /\ \E r \in ClientRuns :
         \/ ClientMain(r)
         \/ ChatNode(r)
         \/ \E i \in PendingCalls(r) : RunTool(r, i)
         \/ ToolNode(r)
         \/ RecursionError(r)
         \/ ClientExit(r)
    /\ UNCHANGED serverVars
SpecClient == InitClient /\ [][NextClient]_vars

\* The client program with its event loop running every task that can go on.
FairnessClient ==
    \A r \in ClientRuns :
        /\ WF_vars(ChatNode(r) /\ UNCHANGED serverVars)
        /\ WF_vars((\E i \in PendingCalls(r) : RunTool(r, i)) /\ UNCHANGED serverVars)
        /\ WF_vars(ToolNode(r) /\ UNCHANGED serverVars)
        /\ WF_vars(RecursionError(r) /\ UNCHANGED serverVars)
        /\ WF_vars(ClientExit(r) /\ UNCHANGED serverVars)
SpecClientFair == InitClient /\ [][NextClient]_vars /\ FairnessClient

\* The daemon with its requests scheduled fairly: the event loop runs every
\* task that can go on; only the arrival of requests is left to the callers.
Fairness ==
    \A r \in Requests :
        /\ WF_vars(ChatNode(r) /\ UNCHANGED serverVars)
        /\ WF_vars((\E i \in PendingCalls(r) : RunTool(r, i)) /\ UNCHANGED serverVars)
        /\ WF_vars(ToolNode(r) /\ UNCHANGED serverVars)
        /\ WF_vars(RecursionError(r) /\ UNCHANGED serverVars)
        /\ WF_vars(Respond(r) /\ UNCHANGED serverVars)
SpecFair == Init /\ [][Next]_vars /\ Fairness

(***************************************************************************)
(* The orchestration loop (claims C1 to C5).                                *)
(***************************************************************************)
IsPrefix(a, b) == Len(a) <= Len(b) /\ SubSeq(b, 1, Len(a)) = a
Last(q) == q[Len(q)]

\* C1: within a request the conversation is append-only: over every step of
\* the loop, a model decision in chat_node or a tool round in tool_node, the
\* conversation before the step is a prefix of the conversation after it.
C1_AppendOnly ==
    [][\A r \in Requests :
         (ChatNode(r) \/ ToolNode(r)) => IsPrefix(req[r].messages, req'[r].messages)]_vars

\* the next model call is due on a conversation of tool messages alone: the
\* user message and the assistant's tool calls are gone
C1_Witness ==
    \E r \in Requests :
        /\ req[r].pc = "chat_node" /\ req[r].step = 2
        /\ \A j \in DOMAIN req[r].messages : req[r].messages[j].type = "tool"

\* the assistant tool calls before position j of a conversation that have the id
CallsWithId(messages, j, id) ==
    {<<i, c>> \in (1..(j - 1)) \X (1..3) :
        /\ messages[i].type = "ai"
        /\ c \in DOMAIN messages[i].tool_calls
        /\ messages[i].tool_calls[c].id = id}

\* C2: in every state of a request's loop, each tool message of the
\* conversation carries the id of exactly one tool call of an assistant
\* message that stands earlier in the same conversation.
C2_ToolCorrelated ==
    \A r \in Requests : \A j \in DOMAIN req[r].messages :
        req[r].messages[j].type = "tool" =>
            Cardinality(CallsWithId(req[r].messages, j,
                                    req[r].messages[j].tool_call_id)) = 1

\* a tool message stands first in its conversation
C2_Witness ==
    \E r \in Requests :
        /\ req[r].messages # <<>>
        /\ req[r].messages[1].type = "tool"
        /\ Last(req[r].messages).type = "ai"

\* C3: a tool round for an assistant turn of k calls appends exactly k tool
\* messages to the conversation, one per call and in the order of the calls,
\* and no model call is made while a call of the turn is unresolved.
C3_ToolRound ==
    [][\A r \in Requests :
         /\ ToolNode(r) =>
              LET old == req[r].messages
                  new == req'[r].messages
                  tool_calls == Last(old).tool_calls
              IN /\ Len(tool_calls) >= 1
                 /\ Len(new) = Len(old) + Len(tool_calls)
                 /\ IsPrefix(old, new)
                 /\ \A i \in DOMAIN tool_calls :
                      /\ new[Len(old) + i].type = "tool"
                      /\ new[Len(old) + i].tool_call_id = tool_calls[i].id
         /\ ChatNode(r) => Last(req[r].messages).tool_calls = <<>>]_vars

\* the round for a turn of three calls has left three tool messages, in the
\* order of the calls, and nothing else
C3_Witness ==
    \E r \in Requests :
        /\ req[r].pc = "chat_node" /\ Len(req[r].messages) = 3
        /\ \A i \in 1..3 : /\ req[r].messages[i].type = "tool"
                            /\ req[r].messages[i].tool_call_id = NewId(r, req[r].step - 2, i)

\* C4: a model decision leads to DONE exactly when the response has no tool
\* calls and to ACTING exactly when it has at least one; DONE is entered from
\* a model decision only, and in DONE the last message of the conversation is
\* that assistant response without tool calls.
C4_Routing ==
    [][\A r \in Requests :
         /\ (ChatNode(r) /\ req'[r].pc # "except") =>
              LET response == Last(req'[r].messages)
              IN /\ response.type = "ai"
                 /\ response.id = NewId(r, req[r].step, 0)
                 /\ (req'[r].pc = "__end__") <=> (response.tool_calls = <<>>)
                 /\ (req'[r].pc = "tool_node") <=> (response.tool_calls # <<>>)
         /\ (req[r].pc # "__end__" /\ req'[r].pc = "__end__") =>
              /\ req[r].pc = "chat_node"
              /\ Last(req'[r].messages).type = "ai"
              /\ Last(req'[r].messages).tool_calls = <<>>
         /\ (req[r].pc = "__end__" /\ req'[r].pc # "__end__") =>
              IF req[r].via = "client"
              THEN /\ req'[r].pc = "exited"
                   /\ req'[r].stdout =
                          IF Last(req[r].messages).content = <<>> THEN <<>>
                          ELSE <<Last(req[r].messages).content>>
              ELSE /\ req'[r].pc = "returned"
                   /\ req'[r].suggestions = Suggestions(req[r].messages)]_vars

\* a run of the client has come to DONE after a tool round, on a response
\* without tool calls, and has printed the content of that response
C4_Witness ==
    \E r \in Requests :
        /\ req[r].via = "client" /\ req[r].pc = "exited" /\ req[r].step = 3
        /\ Last(req[r].messages).type = "ai"
        /\ Last(req[r].messages).tool_calls = <<>>
        /\ req[r].stdout = <<Last(req[r].messages).content>>

\* C5 (as the code has it): every loop ends within RecursionLimit steps, in
\* DONE or aborted by an exception: a request in the loop never has run more
\* than RecursionLimit steps and always comes to __end__ or to the except
\* clause of generate_command.
C5_Terminates ==
    /\ [](\A r \in Requests : req[r].step <= RecursionLimit)
    /\ \A r \in Requests :
         (req[r].pc \in {"chat_node", "tool_node"}) ~> (req[r].pc \in {"__end__", "except"})

\* a loop whose model asked for tools on every decision, stopped by the limit
C5_Witness ==
    \E r \in Requests :
        /\ req[r].pc = "except"
        /\ req[r].error = "GraphRecursionError"
        /\ req[r].step = RecursionLimit

\* C5: every request's loop terminates in DONE, also when the model asks
\* for a tool on every decision: no loop is ended by the recursion limit.
C5_EndsInDone ==
    \A r \in Requests : req[r].pc = "except" => req[r].error # "GraphRecursionError"

(***************************************************************************)
(* Startup (claim C10).                                                     *)
(***************************************************************************)
\* C10: when warm-up has ended without an agent, for the missing key or for
\* the unreachable tool registry, startup has completed all the same and the
\* daemon serves requests.
C10_StartupSurvives ==
    (lifespan \in {"returned", "yielded"} /\ agent_executor = "None")
        => daemon = "serving"

\* BASHME_API_KEY is not set: lifespan has returned without yielding and the
\* startup of the daemon has failed
C10_Witness ==
    ~api_key /\ lifespan = "returned" /\ daemon = "startup_failed"

(***************************************************************************)
(* The tool result cache (claims C6 to C9).                                 *)
(***************************************************************************)
\* handler h has, in this step, run a call from its start to its return
Called(h) == handler[h].pc = "idle" /\ handler'[h].pc = "return"

\* C6 (as the code has it): a call to a TTL-tier tool made less than ttl
\* seconds after the latest insertion under its key returns the value that
\* insertion stored, without running the tool body, unless the entry has been
\* evicted since to make room in the full cache.
C6_HitUnlessEvicted ==
    [][\A h \in Handlers :
         (/\ Called(h)
          /\ handler'[h].tool \in TtlTools
          /\ handler'[h].key = watch.key
          /\ watch.on /\ clock - watch.time < ttl
          /\ ~watch.evicted)
         => (handler'[h].hit /\ handler'[h].value = watch.value)]_vars

\* a second call, a second after the insertion, answered from the cache
C6_Witness ==
    \E h \in Handlers :
        /\ handler[h].pc = "return" /\ handler[h].hit
        /\ handler[h].key = watch.key
        /\ watch.on /\ clock - watch.time = 1
        /\ handler[h].value = watch.value

\* C6: a call to a TTL-tier tool made less than ttl seconds after the latest
\* insertion under its key returns the value that insertion stored, without
\* running the tool body, whatever calls happened in between.
C6_AlwaysHit ==
    [][\A h \in Handlers :
         (/\ Called(h)
          /\ handler'[h].tool \in TtlTools
          /\ handler'[h].key = watch.key
          /\ watch.on /\ clock - watch.time < ttl)
         => (handler'[h].hit /\ handler'[h].value = watch.value)]_vars

\* C7: the LRU tier never holds more than its capacity, and a miss that
\* inserts into the full cache evicts exactly the entry whose latest use
\* (insertion or hit) is the oldest.
C7_LruEviction ==
    /\ [](Cardinality(DOMAIN lru_cache.data) <= LruMaxsize)
    /\ [][\A h \in Handlers :
            (/\ Called(h)
             /\ handler'[h].tool \in LruTools
             /\ ~handler'[h].hit /\ handler'[h].value # Raised
             /\ Cardinality(DOMAIN lru_cache.data) = LruMaxsize)
            => /\ handler'[h].evicted = {Head(recency)}
               /\ DOMAIN lru_cache'.data =
                      (DOMAIN lru_cache.data \ {Head(recency)}) \cup {handler'[h].key}]_vars

\* an insertion into the full cache has evicted cat and spared ls
C7_Witness ==
    \E h \in Handlers :
        /\ handler[h].pc = "return" /\ handler[h].evicted # {}
        /\ \E spared \in DOMAIN lru_cache.data : \E gone \in handler[h].evicted :
             /\ spared # handler[h].key
             /\ spared = <<PyStr("ls")>> /\ gone = <<PyStr("cat")>>
             /\ lru_cache.order = <<spared, handler[h].key>>

\* the entries of ttl_cache that a lookup at time now would find
Live(c, now) == {k \in DOMAIN c.data : now < Expires(c, k)}

\* C8 (as the code has it): the key is made of the argument values alone,
\* bound to the parameters by position; even so a call is never answered with
\* a value another tool stored, and a call hits whenever the cache holds a
\* live entry of the same tool for the same argument values, however these
\* were passed.
C8_SameToolSameEntry ==
    [][\A h \in Handlers :
         (Called(h) /\ handler'[h].tool \in TtlTools) =>
             /\ handler'[h].hit => handler'[h].by = handler'[h].tool
             /\ (\E k \in Live(ttl_cache, clock) :
                    /\ ttl_cache.data[k].by = handler'[h].tool
                    /\ ttl_cache.data[k].argset = handler'[h].argset)
                => handler'[h].hit]_vars

\* a call answered from a cache that holds values of more than one tool
C8_Witness ==
    \E h \in Handlers :
        /\ handler[h].pc = "return" /\ handler[h].hit
        /\ handler[h].tool = "ls"
        /\ Cardinality({ttl_cache.data[k].by : k \in DOMAIN ttl_cache.data}) >= 2

\* C8: the cache key of a call is derived from the tool name together with
\* the arguments: the key of every call holds the name of its tool.
C8_KeyNamesTool ==
    \A h \in Handlers :
        handler[h].pc # "idle" => PyStr(handler[h].tool) \in SeqToSet(handler[h].key)

RECURSIVE Sorted(_)
Sorted(list) ==
    Len(list) <= 1 \/ (list[1].expires <= list[2].expires /\ Sorted(Tail(list)))

\* the bookkeeping of a TTLCache: data, links and list hold the same keys,
\* each once, within the capacity, the list in the order of expiry
TTLConsistent(c) ==
    /\ SeqToSet(c.links) = DOMAIN c.data
    /\ Len(c.links) = Cardinality(DOMAIN c.data)
    /\ {e.key : e \in SeqToSet(c.list)} = DOMAIN c.data
    /\ Len(c.list) = Cardinality(DOMAIN c.data)
    /\ Cardinality(DOMAIN c.data) <= TtlMaxsize
    /\ Sorted(c.list)

\* the bookkeeping of an LRUCache: data and order hold the same keys, each
\* once, within the capacity, the order that of the latest uses
LRUConsistent(c) ==
    /\ SeqToSet(c.order) = DOMAIN c.data
    /\ Len(c.order) = Cardinality(DOMAIN c.data)
    /\ Cardinality(DOMAIN c.data) <= LruMaxsize
    /\ c.order = recency

\* C9: with tool calls in flight together, under every interleaving, the
\* bookkeeping of both caches stays consistent, and no call looks up, computes
\* or stores while another is in the middle of its own lookup or insertion:
\* a lookup sees the cache as it is before or after an insertion or eviction.
\* So the room a call has made for its key is still there when it stores,
\* what a call has stored is under its key when it returns, and what a call
\* was answered with from a cache is the entry under its key.
C9_CacheSafe ==
    /\ TTLConsistent(ttl_cache)
    /\ LRUConsistent(lru_cache)
    /\ \A h \in Handlers :
         handler[h].pc \in {"body", "setitem", "store", "return"} => running = h
    /\ \A h \in Handlers :
         handler[h].pc = "store" =>
             IF Tier(handler[h].tool) = "ttl"
             THEN Cardinality(DOMAIN ttl_cache.data \ {handler[h].key}) < TtlMaxsize
             ELSE Cardinality(DOMAIN lru_cache.data \ {handler[h].key}) < LruMaxsize
    /\ \A h \in Handlers :
         (handler[h].pc = "return" /\ handler[h].value # Raised) =>
             IF Tier(handler[h].tool) = "ttl"
             THEN handler[h].key \in DOMAIN ttl_cache.data
                  /\ ttl_cache.data[handler[h].key].value = handler[h].value
             ELSE handler[h].key \in DOMAIN lru_cache.data
                  /\ lru_cache.data[handler[h].key].value = handler[h].value

\* ttl_cache was full; one call has evicted an unexpired entry to make room
\* and is about to store, while the other, a call with the evicted key, waits
\* to look it up; lru_cache holds a page
C9_Witness ==
    /\ handler[1].pc = "store" /\ Tier(handler[1].tool) = "ttl"
    /\ handler[1].evicted # {}
    /\ Cardinality(DOMAIN ttl_cache.data) = TtlMaxsize - 1
    /\ handler[2].pc = "lookup" /\ handler[2].key \in handler[1].evicted
    /\ lru_cache.data # NoData

(***************************************************************************)
(* Degraded service and failing requests (claims C11 to C14).               *)
(***************************************************************************)
\* a suggestion that is a marker: its text begins with #
IsMarker(suggestion) == suggestion # <<>> /\ Head(suggestion) = "#"

\* C11: while agent_executor is unset, a request is answered at once with one
\* suggestion, a marker beginning with #, and no model call or tool call is
\* made for it; and once lifespan has ended with agent_executor unset no step
\* sets it.
C11_Degraded ==
    [][/\ \A r \in Requests :
            (Generate(r) /\ agent_executor = "None") =>
                /\ req'[r].pc = "returned"
                /\ Len(req'[r].suggestions) = 1
                /\ IsMarker(req'[r].suggestions[1])
                /\ req'[r].messages = <<>> /\ req'[r].step = 0
                /\ req'[r].results = <<>>
       /\ (lifespan \in {"returned", "yielded"} /\ agent_executor = "None")
              => agent_executor' = "None"]_vars

\* both requests have been answered by the daemon serving without an agent
C11_Witness ==
    /\ daemon = "serving" /\ lifespan = "yielded" /\ agent_executor = "None"
    /\ \A r \in Requests :
         req[r].pc = "returned" /\ req[r].suggestions = <<AgentNotInitialized>>

\* C12: a request whose loop is ended by a failure (of the model call, or of
\* the graph) is answered with one suggestion, a marker beginning with #; the
\* failure and its answer change neither agent_executor and the session nor
\* any other request, a new request can follow, and every other request in
\* its loop still comes to its own end.
C12_FailureContained ==
    /\ [][\A r \in Requests :
            ((req[r].pc # "except" /\ req'[r].pc = "except")
                 \/ (req[r].pc = "except" /\ req'[r].pc # "except")) =>
                /\ agent_executor' = agent_executor /\ session' = session
                /\ daemon' = daemon
                /\ \A o \in Requests \ {r} : req'[o] = req[o]
                /\ req[r].pc = "except" =>
                     /\ req'[r].pc = "returned"
                     /\ Len(req'[r].suggestions) = 1
                     /\ IsMarker(req'[r].suggestions[1])]_vars
    /\ [](\A r \in Requests :
            (req[r].pc = "returned" /\ req[r].error # "")
                => ENABLED (Generate(r) /\ UNCHANGED serverVars))
    /\ \A r \in Requests : \A o \in Requests \ {r} :
         (req[r].pc = "except" /\ req[o].pc \in {"chat_node", "tool_node"})
             ~> (req[o].pc \in {"__end__", "except"})

\* the model call of one request has failed and the request has its marker,
\* while the other request has come to DONE after a tool round
C12_Witness ==
    /\ req[1].pc = "returned" /\ req[1].error = "model call failed"
    /\ req[1].suggestions = <<ErrorMarker("model call failed")>>
    /\ req[2].pc = "__end__" /\ req[2].step = 3

\* C13: a request whose loop reached DONE returns the content of the final
\* message, a text, split into one suggestion per line, and the empty list,
\* never a list holding an empty string, when that content has no text.
C13_Suggestions ==
    \A r \in Requests :
        (/\ req[r].pc = "returned" /\ req[r].error = "" /\ req[r].messages # <<>>
         /\ Last(req[r].messages).content_type = "str") =>
            LET content == Last(req[r].messages).content
            IN /\ strip(content) # <<>> =>
                     req[r].suggestions = split(strip(content), "\n")
               /\ strip(content) = <<>> => req[r].suggestions = <<>>

\* the final message held one blank and the request returned [""]
C13_Witness ==
    \E r \in Requests :
        /\ req[r].pc = "returned" /\ req[r].error = "" /\ req[r].messages # <<>>
        /\ Last(req[r].messages).content = <<"U+2003">>
        /\ req[r].suggestions = << <<>> >>

\* C14: each request in flight has a conversation of its own: under every
\* interleaving the conversation of a request holds only messages made for
\* that request, a step of one request changes nothing of another, the
\* suggestions of a request are computed from its own conversation, and the
\* requests change no state they share (agent_executor, the session).
C14_Isolated ==
    /\ [](\A r \in Requests : \A j \in DOMAIN req[r].messages :
             req[r].messages[j].id[1] = r)
    /\ [][/\ Cardinality({r \in Requests : req'[r] # req[r]}) <= 1
          /\ \A r \in Requests :
               (req[r].pc = "__end__" /\ req'[r].pc = "returned") =>
                   req'[r].suggestions = Suggestions(req[r].messages)
          /\ (\E r \in Requests : req'[r] # req[r]) =>
               /\ agent_executor' = agent_executor
               /\ session' = session
               /\ UNCHANGED serverVars]_vars

\* both requests are in their loops, each with a conversation of its own
C14_Witness ==
    /\ req[1].pc = "tool_node" /\ Len(req[1].messages) = 2
    /\ req[2].pc = "chat_node" /\ req[2].step = 2 /\ Len(req[2].messages) = 3

(***************************************************************************)
(* The tools called in the server's own process (claim C15).                *)
(***************************************************************************)
\* the caller sets HOME in a mapping env() returned
MutateDict(value) ==
    RDict([i \in DOMAIN value.d |->
             IF value.d[i][1] = "HOME" THEN <<"HOME", "mut">> ELSE value.d[i]])

\* The caller of env() changes the mapping it was given.  The wrapper of
\* cached() returns the very object it keeps in ttl_cache (the one just
\* stored, or the one found), so the entry under the key changes with it.
MutateResult(h) ==
    /\ handler[h].pc = "return"
    /\ handler[h].tool = "env"
    /\ handler[h].value.t = "dict"
    /\ handler[h].value # MutateDict(handler[h].value)
    /\ handler' = [handler EXCEPT ![h].value = MutateDict(@)]
    /\ ttl_cache' =
         IF /\ handler[h].key \in DOMAIN ttl_cache.data
            /\ ttl_cache.data[handler[h].key].value = handler[h].value
         THEN [ttl_cache EXCEPT !.data[handler[h].key].value = MutateDict(@)]
         ELSE ttl_cache
    /\ UNCHANGED <<clock, lru_cache, running, recency, watch, workload>>

\* The server's tools called by code of its own process, which holds, and can
\* change, the objects it is given.
EnvTools == {"env", "ls"}
NextEnv ==
    /\ \/ Tick
       \/ \E h \in Handlers :
            \/ \E tool \in EnvTools : \E call \in CallForms(tool) : Call(h, tool, call)
            \/ MutateResult(h)
            \/ Return(h)
    /\ UNCHANGED daemonVars
SpecEnv == InitLru /\ [][NextEnv]_vars

\* C15: the mapping env() returns is a disconnected copy: whatever a caller
\* did to a mapping returned before, a call of env(), also one answered from
\* the cache, returns the contents of an environment of the process.
C15_Disconnected ==
    [][\A h \in Handlers :
         (Called(h) /\ handler'[h].tool = "env" /\ handler'[h].value # Raised)
             => handler'[h].value \in {env(environ) : environ \in Environs}]_vars

\* a call of env() has been answered from the cache with a mapping in which
\* HOME is what an earlier caller set it to
C15_Witness ==
    \E h \in Handlers :
        /\ handler[h].pc = "return" /\ handler[h].tool = "env" /\ handler[h].hit
        /\ handler[h].value \notin {env(environ) : environ \in Environs}
        /\ ttl_cache.data[handler[h].key].value = handler[h].value
        /\ clock < Expires(ttl_cache, handler[h].key)

(***************************************************************************)
(* Failing tools in the loop (claim C16).                                   *)
(***************************************************************************)
\* C16: a tool call that fails during a tool round does not end the request:
\* the round goes on until every call of the turn has its result, the
\* failure is the content of the tool message that carries the id of the
\* failed call, and the loop goes back to the model.
C16_ToolFailureFolded ==
    [][\A r \in Requests :
         (req[r].pc = "tool_node" /\ req'[r] # req[r] /\ ~OutOfSteps(req[r].step)) =>
             LET tool_calls == Last(req[r].messages).tool_calls
                 new == req'[r].messages
             IN \/ /\ req'[r].pc = "tool_node"
                   /\ Len(req'[r].results) = Len(req[r].results) + 1
                   /\ req'[r].error = ""
                \/ /\ req'[r].pc = "chat_node"
                   /\ Len(req[r].results) = Len(tool_calls)
                   /\ \A i \in DOMAIN tool_calls :
                        \E j \in DOMAIN new :
                           /\ new[j].type = "tool"
                           /\ new[j].tool_call_id = tool_calls[i].id
                           /\ ResultOf(req[r].results, i) = new[j].content
                           /\ (\E x \in SeqToSet(req[r].results) :
                                   x.index = i /\ x.raised)
                                  => new[j].content \in {ErrToolRaised, ErrToolFailed}]_vars

\* after a round of two calls, one for a tool that is not bound and one for
\* a tool that raised, the model is due again on their two error messages
C16_Witness ==
    \E r \in Requests :
        /\ req[r].pc = "chat_node" /\ req[r].step = 2 /\ req[r].error = ""
        /\ Len(req[r].messages) = 2
        /\ req[r].messages[1].content = ErrInvalidTool
        /\ req[r].messages[2].content = ErrToolFailed

(***************************************************************************)
(* The tool bodies (claims C17 to C19).                                     *)
(***************************************************************************)
\* C17: man(command_name) never raises to its caller: whatever way the
\* lookup fails, the call returns (the empty string).
C17_ManNeverRaises ==
    \A h \in Handlers :
        (handler[h].pc = "return" /\ handler[h].tool = "man")
            => (handler[h].value # Raised /\ handler[h].value.t = "str")

\* a read of man has ended with an exception, and nothing was stored for it
C17_Witness ==
    \E h \in Handlers :
        /\ handler[h].pc = "return" /\ handler[h].tool = "man"
        /\ handler[h].value = Raised
        /\ handler[h].key \notin DOMAIN lru_cache.data

\* The tools ls and history as server.py exports them, the body inside
\* log_io and cached(ttl_cache), each call with its argument and with what the
\* machine holds at the time of the call.
FnTools == {"ls", "history"}
FnPaths == {".", "./d"}
FnN == {0, 1, 2}
\* the lines a history file can hold: a command, a comment and a blank line
\* behind white space, a command with white space around it
FnLines == {<<"l", "s", "\n">>, <<"U+3000", "#", "x", "\n">>, <<"U+2003", "\n">>,
            <<"U+2003", "c", "d", " ", "\n">>}
FnLineSeqs == UNION {[1..k -> FnLines] : k \in 0..2}
FnHistFiles ==
    {[stat |-> "ok", is_file |-> FALSE, readable |-> TRUE, lines |-> <<>>],
     [stat |-> "EACCES", is_file |-> TRUE, readable |-> TRUE,
      lines |-> << <<"l", "s", "\n">> >>],
     [stat |-> "ok", is_file |-> TRUE, readable |-> FALSE,
      lines |-> << <<"l", "s", "\n">> >>]}
    \cup {[stat |-> "ok", is_file |-> TRUE, readable |-> TRUE, lines |-> lines] :
            lines \in FnLineSeqs}

FnArgs(tool) ==
    CASE tool = "ls" -> {<<PyStr(p)>> : p \in FnPaths}
      [] tool = "history" -> {<<PyInt(n)>> : n \in FnN}
FnInputs(tool) ==
    CASE tool = "ls" -> FsNodes
      [] tool = "history" -> FnHistFiles
FnApply(tool, args, input) ==
    CASE tool = "ls" -> ls(args[1].s, input)
      [] tool = "history" -> history(args[1].n, input)

\* One call of a tool, from its arguments to what it returns or raises: the
\* wrapper looks the key up and answers from ttl_cache on a hit; on a miss
\* the body runs on what the machine holds (kept in read) and what it returns
\* is stored.
Run(h, tool, args, input) ==
    /\ CanStep(h)
    /\ handler[h].pc = "idle"
    /\ LET r == AfterCall(Entered(tool, [args |-> args, kwargs |-> NoKwargs]),
                          Caches, clock, FnApply(tool, args, input))
       IN Becomes(h, [r EXCEPT !.hd.read = IF r.hd.hit THEN <<>> ELSE <<input>>])
    /\ running' = h
    /\ UNCHANGED clock

\* the calls come one after the other, as the event loop runs them
FnHandlers == {1}
NextFn ==
    /\ \/ Tick
       \/ \E h \in FnHandlers :
            \/ \E tool \in FnTools : \E args \in FnArgs(tool) :
                 \E input \in FnInputs(tool) : Run(h, tool, args, input)
            \/ Return(h)
    /\ UNCHANGED daemonVars
SpecFn == InitLru /\ [][NextFn]_vars

\* a call whose body ran (a miss), of which handler h holds the result
Ran(h, tool) ==
    handler[h].pc = "return" /\ handler[h].tool = tool /\ handler[h].read # <<>>

\* the valid lines of a history file, oldest first: the lines that, without
\* the white space around them, are not empty and do not begin with #
RECURSIVE ValidLines(_)
ValidLines(lines) ==
    IF lines = <<>> THEN <<>>
    ELSE LET text == strip(Head(lines))
         IN IF text # <<>> /\ text[1] # "#"
            THEN <<Join(text)>> \o ValidLines(Tail(lines))
            ELSE ValidLines(Tail(lines))

Min(a, b) == IF a <= b THEN a ELSE b
\* the last m elements of q
LastN(q, m) == SubSeq(q, Len(q) - m + 1, Len(q))

\* what history(n) is to return for a file as the claim C18 has it
HistoryClaimed(n, file) ==
    LET valid == ValidLines(file.lines)
    IN IF n <= 0 \/ ~file.is_file \/ valid = <<>> THEN <<>>
       ELSE LastN(valid, Min(n, Len(valid)))

\* the history file is at a path that cannot be examined, and history(1) has
\* raised
C18_Witness ==
    \E h \in Handlers :
        /\ Ran(h, "history")
        /\ handler[h].args[1].n = 1
        /\ handler[h].read[1].stat = "EACCES"
        /\ Len(ValidLines(handler[h].read[1].lines)) = 1
        /\ handler[h].value = Raised

\* C18: history(n) returns the empty list when n <= 0, when the history
\* file is missing, or when it has no valid line; otherwise, for a file with
\* k valid lines, exactly the last min(n, k) of them, oldest first.
C18_History ==
    \A h \in Handlers :
        Ran(h, "history") =>
            handler[h].value =
                RList(HistoryClaimed(handler[h].args[1].n, handler[h].read[1]))

\* ls has raised on a path that is not a directory and cannot be examined
C19_Witness ==
    \E h \in Handlers :
        /\ Ran(h, "ls")
        /\ handler[h].args[1].s = "./d"
        /\ handler[h].read[1].kind = "file"
        /\ handler[h].read[1].stat = "EACCES"
        /\ handler[h].value = Raised

\* C19: ls(path) returns the empty list when path does not exist or is not
\* a directory; for a directory with the entries a and b it returns exactly
\* the two names a and b, with nothing added to them.
C19_LsNames ==
    \A h \in Handlers :
        Ran(h, "ls") =>
            LET node == handler[h].read[1]
            IN /\ node.kind # "dir" => handler[h].value = RList(<<>>)
               /\ (node.kind = "dir" /\ node.readable)
                      => handler[h].value = RList(node.entries)

(***************************************************************************)
(* What a miss stores (claim C20).                                          *)
(***************************************************************************)
\* a call of ls has missed and raised, and nothing is stored under its key
C20_Witness ==
    /\ handler[1].pc = "idle" /\ handler[2].pc = "return"
    /\ handler[2].tool = "ls" /\ handler[2].value = Raised /\ ~handler[2].hit
    /\ handler[2].key \notin DOMAIN ttl_cache.data
    /\ clock = 0

\* C20: on a miss the outcome of the tool is stored, an error outcome too:
\* after a call that failed, the cache holds an entry under its key, from
\* which an identical call within the TTL window is answered.
C20_ErrorsCached ==
    [][\A h \in Handlers :
         (Called(h) /\ handler'[h].tool \in TtlTools /\ ~handler'[h].hit)
             => handler'[h].key \in Live(ttl_cache', clock)]_vars

(***************************************************************************)
(* The life of the session (claim C21).                                     *)
(***************************************************************************)
\* C21: the session through which the tools of the graph were loaded at
\* warm-up stays open for as long as the daemon serves with that graph: it is
\* open whenever the loop of a request is to run a tool.
C21_SessionOpen ==
    /\ (daemon = "serving" /\ agent_executor = "graph") => session = "open"
    /\ \A r \in Requests : req[r].pc = "tool_node" => session = "open"

\* the daemon serves with its graph, the session is closed, and the call of a
\* bound tool in the loop of a request has raised on it
C21_Witness ==
    /\ daemon = "serving" /\ agent_executor = "graph" /\ session = "closed"
    /\ \E r \in Requests :
         /\ req[r].pc = "tool_node"
         /\ \E x \in SeqToSet(req[r].results) :
              /\ Last(req[r].messages).tool_calls[x.index].name \in BoundTools
              /\ x.content = ErrToolRaised

====
